---------------------------- MODULE Spec2Model ----------------------------
(* A model of ds_workflow: the ColumnLabel record with its validated      *)
(* attribute writes (column_label.py) and the Dataset that owns a table   *)
(* and one label per column (dataset.py).                                 *)
(*                                                                        *)
(* A Python value is a record [kind, v]: kind is the name of its Python    *)
(* type and v its text.  A cell of the table is a record [k, n]: k is the  *)
(* Python type of the scalar that iterating the column yields and n its    *)
(* payload.  A raised exception is a record [err, exc]: err names the      *)
(* raise site and exc the Python class raised there.                       *)
EXTENDS Integers, Sequences, FiniteSets, TLC

VARIABLES df, labels, target, obj, last, split_indices, is_split

vars == <<df, labels, target, obj, last, split_indices, is_split>>

-----------------------------------------------------------------------------
(* Python values handed to ColumnLabel *)

PyStr(s) == [kind |-> "str", v |-> s]

PyBool(b) == [kind |-> "bool", v |-> IF b THEN "True" ELSE "False"]

PyFloat(s) == [kind |-> "float", v |-> s]

PyInt(s) == [kind |-> "int", v |-> s]

None == [kind |-> "NoneType", v |-> "None"]

\* COLUMN_VALUES[key].type
AcceptableType(key) ==
    CASE key = "category" -> "str"
      [] key = "type" -> "str"
      [] key = "is_active" -> "bool"

\* COLUMN_VALUES[key].values
AcceptableValues(key) ==
    CASE key = "category" ->
            {PyStr("categorical"), PyStr("numeric"), PyStr("text"), PyStr("date/time")}
      [] key = "type" ->
            {PyStr("int"), PyStr("float"), PyStr("str"), PyStr("date"), PyStr("time"),
             PyStr("datetime")}
      [] key = "is_active" -> {PyBool(TRUE), PyBool(FALSE)}

\* NAME_TYPES_MAP: the label's type name to the Python type (named by __name__)
NAME_TYPES_MAP ==
    [t \in {"str", "float", "int", "date", "time", "datetime"} |-> t]

\* CAST_MAP, keyed by the __name__ of each Python type it lists
CAST_MAP ==
    [t \in {"int", "int64", "float", "float64", "str", "object", "object_",
            "date", "time", "datetime"} |->
        CASE t \in {"int", "int64"} ->
                [category |-> <<"numeric", "categorical">>,
                 type |-> <<"float", "datetime">>]
          [] t \in {"float", "float64"} ->
                [category |-> <<"numeric">>, type |-> <<"int">>]
          [] t \in {"str", "object", "object_"} ->
                [category |-> <<"categorical", "text">>,
                 type |-> <<"int", "float", "date", "time", "datetime">>]
          [] t \in {"date", "time"} ->
                [category |-> <<"date/time">>, type |-> <<"int">>]
          [] t = "datetime" ->
                [category |-> <<"date/time">>, type |-> <<"int", "date", "time">>]]

Range(s) == {s[i] : i \in DOMAIN s}

-----------------------------------------------------------------------------
(* Exceptions *)

NoError == [err |-> "none", exc |-> "none"]

\* the Python class raised at each raise site
ExcClass(site) ==
    CASE site \in {"InvalidAttribute", "InvalidValue", "CategoryTypeMismatch",
                   "ColumnNotFound", "DateParse", "CastValue", "InvalidCast",
                   "ColumnExists", "UnknownNullStrategy"} -> "ValueError"
      [] site = "DataTypeNotFound" -> "DataTypeNotFound"
      [] site = "KeyError" -> "KeyError"
      [] site = "LibraryTypeError" -> "TypeError"

Raise(site) == [err |-> site, exc |-> ExcClass(site)]

-----------------------------------------------------------------------------
(* ColumnLabel *)

NoObj == [category |-> None, type |-> None, is_active |-> None]

\* ColumnLabel.__setattr__: the exception of one attribute write, or NoError
SetAttrError(key, value) ==
    IF value.kind # AcceptableType(key) THEN Raise("InvalidAttribute")
    ELSE IF value \notin AcceptableValues(key) THEN Raise("InvalidValue")
    ELSE NoError

\* ColumnLabel.__setattr__: the object after one attribute write
SetAttr(o, key, value) ==
    IF SetAttrError(key, value) = NoError THEN [o EXCEPT ![key] = value] ELSE o

\* a check that accepts every pair
CategoryTypeMatchNeverFails(o) == NoError

\* ColumnLabel.category_type_match: the exception it raises, or NoError
category_type_match(o) ==
    IF o.category.v \notin Range(CAST_MAP[NAME_TYPES_MAP[o.type.v]].category)
    THEN Raise("CategoryTypeMismatch")
    ELSE NoError

\* ColumnLabel.__init__: [obj, e], obj being built only when e = NoError
ColumnLabel(category, type, is_active) ==
    LET e1 == SetAttrError("category", category)
        e2 == SetAttrError("type", type)
        e3 == SetAttrError("is_active", is_active)
        o  == [category |-> category, type |-> type, is_active |-> is_active]
    IN  IF e1 # NoError THEN [obj |-> NoObj, e |-> e1]
        ELSE IF e2 # NoError THEN [obj |-> NoObj, e |-> e2]
        ELSE IF e3 # NoError THEN [obj |-> NoObj, e |-> e3]
        ELSE IF category_type_match(o) # NoError
             THEN [obj |-> NoObj, e |-> category_type_match(o)]
        ELSE [obj |-> o, e |-> NoError]

-----------------------------------------------------------------------------
(* Cells of the table.  k is the Python type of the scalar; n is the     *)
(* payload: the integer, the float counted in halves, the nanoseconds     *)
(* since the epoch of a Timestamp, or the index of a string in Strings.   *)

IntCell(n) == [k |-> "int", n |-> n]

FloatCell(halves) == [k |-> "float", n |-> halves]

NaN == [k |-> "nan", n |-> 0]

StrCell(i) == [k |-> "str", n |-> i]

BoolCell(b) == [k |-> "bool", n |-> b]

TsCell(ns) == [k |-> "Timestamp", n |-> ns]

NaT == [k |-> "NaT", n |-> 0]

\* the strings of the model, in lexicographic order: their length, the integer
\* they spell (-1: none), and whether pd.to_datetime reads them as a date
\*   1: "1970-01-01", a date, the epoch
\*   2: "7", a number and taken to be no date
\*   3: a text of twenty letters, neither
StrLen == <<10, 1, 20>>

StrNumber == <<-1, 7, -1>>

StrIsDate == <<TRUE, FALSE, FALSE>>

\* type(value).__name__ for a cell
PyType(v) ==
    CASE v.k = "nan" -> "float"
      [] v.k = "NaT" -> "NaTType"
      [] OTHER -> v.k

\* pandas isna
IsNull(v) == v.k \in {"nan", "NaT"}

\* the mark of an element that could not be converted, with the class raised
Failed(exc) == [k |-> "failed", n |-> IF exc = "ValueError" THEN 0 ELSE 1]

IsFailed(v) == v.k = "failed"

\* int() of a cell that is not null
IntOfValue(v) ==
    CASE v.k = "int" -> v
      [] v.k = "bool" -> IntCell(v.n)
      [] v.k = "float" -> IntCell(v.n \div 2)
      [] v.k = "Timestamp" -> IntCell(v.n)
      [] v.k = "str" ->
            IF StrNumber[v.n] >= 0 THEN IntCell(StrNumber[v.n])
            ELSE Failed("ValueError")

\* one element of Series.astype(int): the cell, or Failed(exc)
AsInt(v) == IF IsNull(v) THEN Failed("ValueError") ELSE IntOfValue(v)

\* one element of Series.astype(float)
AsFloat(v) ==
    CASE v.k = "int" -> FloatCell(2 * v.n)
      [] v.k = "bool" -> FloatCell(2 * v.n)
      [] v.k = "float" -> v
      [] v.k = "nan" -> v
      [] v.k \in {"NaT", "Timestamp"} -> Failed("TypeError")
      [] v.k = "str" ->
            IF StrNumber[v.n] >= 0 THEN FloatCell(2 * StrNumber[v.n])
            ELSE Failed("ValueError")

\* one element of pd.to_datetime(column, format=format); format is None or
\* PyStr("%Y-%m-%d").  Numbers are nanoseconds since the epoch when no format
\* is given and are matched as text against a given format.
ToDatetime(v, format) ==
    CASE v.k \in {"Timestamp", "NaT"} -> v
      [] v.k = "nan" -> NaT
      [] v.k = "int" -> IF format = None THEN TsCell(v.n) ELSE Failed("ValueError")
      [] v.k = "float" ->
            IF format = None THEN TsCell(v.n \div 2) ELSE Failed("ValueError")
      [] v.k = "bool" -> Failed("TypeError")
      [] v.k = "str" -> IF StrIsDate[v.n] THEN TsCell(0) ELSE Failed("ValueError")

\* the first failure of an element-wise conversion, or NoError
FirstFailure(conv) ==
    IF \E i \in DOMAIN conv : IsFailed(conv[i])
    THEN LET i == CHOOSE j \in DOMAIN conv :
                    IsFailed(conv[j]) /\ \A h \in 1..(j - 1) : ~IsFailed(conv[h])
         IN  IF conv[i].n = 0 THEN "ValueError" ELSE "TypeError"
    ELSE "none"

\* Series.astype(cast_type): [vals, exc].  A type pandas does not know as a
\* dtype (datetime.date, datetime.time) is refused with a TypeError.
AsType(vals, to_type) ==
    IF to_type \notin {"int", "float"} THEN [vals |-> vals, exc |-> "TypeError"]
    ELSE LET conv == [i \in DOMAIN vals |->
                        IF to_type = "int" THEN AsInt(vals[i]) ELSE AsFloat(vals[i])]
         IN  [vals |-> conv, exc |-> FirstFailure(conv)]

\* pd.to_datetime(column, format=format): [vals, exc]
ToDatetimeColumn(vals, format) ==
    LET conv == [i \in DOMAIN vals |-> ToDatetime(vals[i], format)]
    IN  [vals |-> conv, exc |-> FirstFailure(conv)]

-----------------------------------------------------------------------------
(* The table.  df is [index, cols]: index is the sequence of row labels   *)
(* and cols maps each column name to its cells, one per row.  A column    *)
(* name is [root, levels]: a dummy column's name is its prefix's name     *)
(* extended by the separator and the level it stands for.                 *)

Name(root) == [root |-> root, levels |-> <<>>]

DummyName(prefix, sep, level) ==
    [root |-> prefix.root, levels |-> Append(prefix.levels, [sep |-> sep, v |-> level])]

Columns(table) == DOMAIN table.cols

RECURSIVE Pick(_, _, _)
\* the cells of s at the positions of P, in order, from position i on
Pick(s, P, i) ==
    IF i > Len(s) THEN <<>>
    ELSE (IF i \in P THEN <<s[i]>> ELSE <<>>) \o Pick(s, P, i + 1)

\* DataFrame.drop(index=to_drop, axis=0): [df, exc]; a label that is not in the
\* index is a KeyError
DropIndex(table, to_drop) ==
    IF \E i \in DOMAIN to_drop : to_drop[i] \notin Range(table.index)
    THEN [df |-> table, exc |-> "KeyError"]
    ELSE LET keep == {i \in DOMAIN table.index : table.index[i] \notin Range(to_drop)}
         IN  [df |-> [index |-> Pick(table.index, keep, 1),
                      cols |-> [c \in Columns(table) |-> Pick(table.cols[c], keep, 1)]],
              exc |-> "none"]

\* DataFrame.drop(labels=col_name, axis=1)
DropLabel(table, col_name) ==
    [table EXCEPT !.cols = [c \in Columns(table) \ {col_name} |-> table.cols[c]]]

\* pd.concat([df, to_add], axis=1) for a frame on the same index
Concat(table, frame) ==
    [table EXCEPT !.cols =
        [c \in Columns(table) \cup {frame[i].name : i \in DOMAIN frame} |->
            IF \E i \in DOMAIN frame : frame[i].name = c
            THEN frame[CHOOSE i \in DOMAIN frame : frame[i].name = c].vals
            ELSE table.cols[c]]]

RECURSIVE SortedLevels(_)
\* the distinct values of a set of cells, in increasing order
SortedLevels(S) ==
    IF S = {} THEN <<>>
    ELSE LET m == CHOOSE x \in S : \A y \in S : x.n <= y.n
         IN  <<m>> \o SortedLevels(S \ {m})

\* pd.get_dummies(column, prefix, prefix_sep, drop_first, dtype=np.int64): one
\* 0/1 column per distinct non-null value, the first one left out by drop_first
GetDummies(vals, prefix, prefix_sep, drop_first) ==
    LET all    == SortedLevels({vals[i] : i \in {j \in DOMAIN vals : ~IsNull(vals[j])}})
        levels == IF drop_first /\ all # <<>> THEN Tail(all) ELSE all
    IN  [l \in DOMAIN levels |->
            [name |-> DummyName(prefix, prefix_sep, levels[l]),
             vals |-> [i \in DOMAIN vals |->
                          IF vals[i] = levels[l] THEN IntCell(1) ELSE IntCell(0)]]]

\* Series.mean(skipna=True), rounded down to the unit of the payload: the cell,
\* or Failed("TypeError") for strings
Mean(vals) ==
    LET P == {i \in DOMAIN vals : ~IsNull(vals[i])}
        S == Pick(vals, P, 1)
        Sum[i \in 0..Len(S)] == IF i = 0 THEN 0 ELSE Sum[i - 1] + S[i].n
    IN  IF \E i \in P : vals[i].k = "str" THEN Failed("TypeError")
        ELSE IF P = {} THEN NaN
        ELSE IF S[1].k = "Timestamp" THEN TsCell(Sum[Len(S)] \div Len(S))
        ELSE IF S[1].k = "float" THEN FloatCell(Sum[Len(S)] \div Len(S))
        ELSE FloatCell((2 * Sum[Len(S)]) \div Len(S))

\* Series.fillna(value=average)
FillNa(vals, average) ==
    [i \in DOMAIN vals |-> IF IsNull(vals[i]) /\ ~IsNull(average) THEN average ELSE vals[i]]

-----------------------------------------------------------------------------
(* Dataset.  A method is an operator from the Dataset's fields            *)
(* st = [df, labels, target] and the arguments to [st, e]: the fields      *)
(* when the call returns or raises, and the exception raised (NoError     *)
(* when it returns).                                                      *)

Return(st) == [st |-> st, e |-> NoError]

Throw(st, site) == [st |-> st, e |-> Raise(site)]

TypeObj(t) == [kind |-> "type", v |-> t]

\* Dataset.validate_column_name
validate_column_name(st, col_name) ==
    IF col_name \notin Columns(st.df) THEN Raise("ColumnNotFound") ELSE NoError

\* the tuple (None, np.nan) that auto_type compares each value's type with
NullMarkers == {None, PyFloat("nan")}

\* Dataset.auto_type on the column's cells: [type, e]
auto_type(vals) ==
    LET hits == {i \in DOMAIN vals : TypeObj(PyType(vals[i])) \notin NullMarkers}
    IN  IF hits = {} THEN [type |-> None, e |-> Raise("DataTypeNotFound")]
        ELSE [type |-> TypeObj(PyType(vals[CHOOSE i \in hits : \A j \in hits : i <= j])),
              e |-> NoError]

\* the length from which a string column is labelled as text
TextLength == 20

\* CATEGORY_MAP of column_label: the default category of each type but str
CATEGORY_MAP ==
    [t \in {"int", "float", "date", "time", "datetime"} |->
        IF t \in {"int", "float"} THEN "numeric" ELSE "date/time"]

\* Dataset.auto_category on the column's cells: [category, e]
auto_category(col_type, vals) ==
    IF col_type = TypeObj("str")
    THEN IF vals = <<>> THEN [category |-> None, e |-> NoError]
         ELSE IF vals[1].k # "str" THEN [category |-> None, e |-> Raise("LibraryTypeError")]
         ELSE IF StrLen[vals[1].n] >= TextLength
              THEN [category |-> PyStr("text"), e |-> NoError]
              ELSE [category |-> PyStr("categorical"), e |-> NoError]
    ELSE IF col_type.v \in DOMAIN CATEGORY_MAP
         THEN [category |-> PyStr(CATEGORY_MAP[col_type.v]), e |-> NoError]
         ELSE [category |-> None, e |-> Raise("KeyError")]

\* Dataset.auto_assign: [obj, e]
auto_assign(st, col_name) ==
    IF validate_column_name(st, col_name) # NoError
    THEN [obj |-> NoObj, e |-> validate_column_name(st, col_name)]
    ELSE LET t == auto_type(st.df.cols[col_name])
             c == auto_category(t.type, st.df.cols[col_name])
         IN  IF t.e # NoError THEN [obj |-> NoObj, e |-> t.e]
             ELSE IF c.e # NoError THEN [obj |-> NoObj, e |-> c.e]
             ELSE ColumnLabel(c.category, PyStr(t.type.v), PyBool(TRUE))

\* Dataset.set_target
set_target(st, col_name) ==
    IF validate_column_name(st, col_name) # NoError
    THEN [st |-> st, e |-> validate_column_name(st, col_name)]
    ELSE Return([st EXCEPT !.target = col_name])

\* Dataset.cast_active
cast_active(st, col_name, is_active) ==
    IF validate_column_name(st, col_name) # NoError
    THEN [st |-> st, e |-> validate_column_name(st, col_name)]
    ELSE IF col_name \notin DOMAIN st.labels THEN Throw(st, "KeyError")
    ELSE [st |-> [st EXCEPT !.labels[col_name] = SetAttr(@, "is_active", is_active)],
          e  |-> SetAttrError("is_active", is_active)]

\* the value cast of cast_type (lines 155-173): [vals, e], vals being the cast
\* column when e = NoError
CastValues(vals, from_type, to_type, format) ==
    IF to_type = "datetime"
    THEN LET r == ToDatetimeColumn(vals, format)
         IN  CASE r.exc = "none" -> [vals |-> r.vals, e |-> NoError]
               [] r.exc = "ValueError" -> [vals |-> vals, e |-> Raise("DateParse")]
               [] OTHER -> [vals |-> vals, e |-> Raise("LibraryTypeError")]
    ELSE IF to_type \in Range(CAST_MAP[from_type].type)
    THEN LET r == AsType(vals, to_type)
         IN  CASE r.exc = "none" -> [vals |-> r.vals, e |-> NoError]
               [] r.exc = "ValueError" -> [vals |-> vals, e |-> Raise("CastValue")]
               [] OTHER -> [vals |-> vals, e |-> Raise("LibraryTypeError")]
    ELSE [vals |-> vals, e |-> Raise("InvalidCast")]

\* the default category after a cast: the last entry of the type's categories
LastCategory(to_type) ==
    CAST_MAP[to_type].category[Len(CAST_MAP[to_type].category)]

\* the default category after a cast (line 176)
DefaultCategory(to_type) == CAST_MAP[to_type].category[1]

\* the label writes of cast_type (lines 175-178): [obj, e]
CastLabel(o, to_type) ==
    LET o1 == SetAttr(o, "type", PyStr(to_type))
        o2 == SetAttr(o1, "category", PyStr(DefaultCategory(to_type)))
    IN  IF SetAttrError("type", PyStr(to_type)) # NoError
        THEN [obj |-> o, e |-> SetAttrError("type", PyStr(to_type))]
        ELSE IF SetAttrError("category", PyStr(DefaultCategory(to_type))) # NoError
        THEN [obj |-> o1, e |-> SetAttrError("category", PyStr(DefaultCategory(to_type)))]
        ELSE [obj |-> o2, e |-> category_type_match(o2)]

\* a cast_type that writes the label before it casts the values
cast_type_label_first(st, col_name, to_type, format) ==
    IF validate_column_name(st, col_name) # NoError
    THEN [st |-> st, e |-> validate_column_name(st, col_name)]
    ELSE IF col_name \notin DOMAIN st.labels THEN Throw(st, "KeyError")
    ELSE LET from_type == NAME_TYPES_MAP[st.labels[col_name].type.v]
             l == IF to_type \in DOMAIN CAST_MAP
                  THEN CastLabel(st.labels[col_name], to_type)
                  ELSE [obj |-> st.labels[col_name], e |-> NoError]
             r == CastValues(st.df.cols[col_name], from_type, to_type, format)
         IN  [st |-> [st EXCEPT !.labels[col_name] = l.obj,
                                !.df.cols[col_name] = r.vals],
              e  |-> IF r.e # NoError THEN r.e ELSE l.e]

\* Dataset.cast_type
cast_type(st, col_name, to_type, format) ==
    IF validate_column_name(st, col_name) # NoError
    THEN [st |-> st, e |-> validate_column_name(st, col_name)]
    ELSE IF col_name \notin DOMAIN st.labels THEN Throw(st, "KeyError")
    ELSE LET from_type == NAME_TYPES_MAP[st.labels[col_name].type.v]
             r == CastValues(st.df.cols[col_name], from_type, to_type, format)
             l == CastLabel(st.labels[col_name], to_type)
         IN  IF r.e # NoError THEN [st |-> st, e |-> r.e]
             ELSE [st |-> [st EXCEPT !.df.cols[col_name] = r.vals,
                                     !.labels[col_name] = l.obj],
                   e  |-> l.e]

\* Dataset.cast_category
cast_category(st, col_name, category) ==
    IF validate_column_name(st, col_name) # NoError
    THEN [st |-> st, e |-> validate_column_name(st, col_name)]
    ELSE IF col_name \notin DOMAIN st.labels THEN Throw(st, "KeyError")
    ELSE LET o == SetAttr(st.labels[col_name], "category", category)
         IN  [st |-> [st EXCEPT !.labels[col_name] = o],
              e  |-> IF SetAttrError("category", category) # NoError
                     THEN SetAttrError("category", category)
                     ELSE category_type_match(o)]

\* Dataset.drop_rows
drop_rows(st, to_drop) ==
    LET r == DropIndex(st.df, to_drop)
    IN  IF r.exc # "none" THEN Throw(st, "KeyError")
        ELSE Return([st EXCEPT !.df = r.df])

\* Dataset.drop_null_rows
drop_null_rows(st, col_name) ==
    IF validate_column_name(st, col_name) # NoError
    THEN [st |-> st, e |-> validate_column_name(st, col_name)]
    ELSE LET vals  == st.df.cols[col_name]
             nulls == {i \in DOMAIN vals : IsNull(vals[i])}
         IN  drop_rows(st, Pick(st.df.index, nulls, 1))

RECURSIVE drop_columns_from(_, _, _)
\* the loop of drop_columns from the i-th name of to_drop on
drop_columns_from(st, to_drop, i) ==
    IF i > Len(to_drop) THEN Return(st)
    ELSE IF validate_column_name(st, to_drop[i]) # NoError
    THEN [st |-> st, e |-> validate_column_name(st, to_drop[i])]
    ELSE LET dropped == [st EXCEPT !.df = DropLabel(st.df, to_drop[i])]
         IN  IF to_drop[i] \notin DOMAIN st.labels THEN Throw(dropped, "KeyError")
             ELSE drop_columns_from(
                    [dropped EXCEPT !.labels =
                        [c \in DOMAIN st.labels \ {to_drop[i]} |-> st.labels[c]]],
                    to_drop, i + 1)

\* Dataset.drop_columns
drop_columns(st, to_drop) == drop_columns_from(st, to_drop, 1)

RECURSIVE assign_labels_from(_, _, _)
\* the loop of add_columns over the columns of a DataFrame, from the i-th on
assign_labels_from(st, frame, i) ==
    IF i > Len(frame) THEN Return(st)
    ELSE LET a == auto_assign(st, frame[i].name)
         IN  IF a.e # NoError THEN [st |-> st, e |-> a.e]
             ELSE assign_labels_from(
                    [st EXCEPT !.labels =
                        [c \in DOMAIN st.labels \cup {frame[i].name} |->
                            IF c = frame[i].name THEN a.obj ELSE st.labels[c]]],
                    frame, i + 1)

\* Dataset.add_columns; to_add is [kind, frame], frame being the sequence of the
\* named columns of a DataFrame, or the one named column of a Series
add_columns(st, to_add) ==
    IF to_add.kind = "DataFrame"
    THEN assign_labels_from([st EXCEPT !.df = Concat(st.df, to_add.frame)], to_add.frame, 1)
    ELSE IF to_add.kind = "Series"
    THEN IF to_add.frame[1].name \notin Columns(st.df)
         THEN LET a == auto_assign(st, to_add.frame[1].name)
              IN  IF a.e # NoError THEN [st |-> st, e |-> a.e]
                  ELSE Return([st EXCEPT !.labels =
                          [c \in DOMAIN st.labels \cup {to_add.frame[1].name} |->
                              IF c = to_add.frame[1].name THEN a.obj ELSE st.labels[c]]])
         ELSE Throw(st, "ColumnExists")
    ELSE Return(st)

\* the frame of dummy columns that to_dummies adds (lines 255-257)
DummiesFrame(st, col_name, drop_first, prefix, prefix_sep) ==
    GetDummies(st.df.cols[col_name],
               IF prefix # None THEN Name(prefix.v) ELSE col_name,
               IF prefix_sep # None THEN prefix_sep.v ELSE "_",
               drop_first)

\* Dataset.to_dummies
to_dummies(st, col_name, drop_categorical, drop_first, prefix, prefix_sep) ==
    IF validate_column_name(st, col_name) # NoError
    THEN [st |-> st, e |-> validate_column_name(st, col_name)]
    ELSE LET r == add_columns(st,
                    [kind |-> "DataFrame",
                     frame |-> DummiesFrame(st, col_name, drop_first, prefix, prefix_sep)])
         IN  IF r.e # NoError THEN r
             ELSE IF drop_categorical THEN drop_columns(r.st, <<col_name>>)
             ELSE r

\* the fill_average branch of handle_nulls (lines 276-281); inplace tells whether
\* the in-place fillna on the selected column writes through to the table
fill_average(st, col_name, strategy, inplace) ==
    IF strategy = PyStr("fill_average")
    THEN IF col_name \notin Columns(st.df) THEN Throw(st, "KeyError")
         ELSE LET average == Mean(st.df.cols[col_name])
              IN  IF IsFailed(average) THEN Throw(st, "LibraryTypeError")
                  ELSE IF inplace
                  THEN Return([st EXCEPT !.df.cols[col_name] = FillNa(@, average)])
                  ELSE Return(st)
    ELSE Throw(st, "UnknownNullStrategy")

\* Dataset.handle_nulls
handle_nulls(st, col_name, strategy, inplace) ==
    LET r1 == IF strategy = PyStr("drop_rows") THEN drop_null_rows(st, col_name)
              ELSE Return(st)
        r2 == IF strategy = PyStr("drop_column") THEN drop_columns(r1.st, <<col_name>>)
              ELSE Return(r1.st)
    IN  IF r1.e # NoError THEN r1
        ELSE IF r2.e # NoError THEN r2
        ELSE fill_average(r2.st, col_name, strategy, inplace)

\* random.seed(seed); random.shuffle(indices) on indices = list(range(size)):
\* the order CPython's generator gives for the seeds 0 and 1
shuffle(seed, size) ==
    CASE size = 0 -> <<>>
      [] size = 1 -> <<0>>
      [] size = 2 -> IF seed = 0 THEN <<0, 1>> ELSE <<1, 0>>
      [] size = 3 -> IF seed = 0 THEN <<0, 2, 1>> ELSE <<1, 2, 0>>
      [] size = 4 -> IF seed = 0 THEN <<2, 0, 1, 3>> ELSE <<3, 0, 2, 1>>

\* int(fraction * size), the fraction counted in quarters: int() drops the
\* fractional part, towards zero
SizeOf(quarters, size) ==
    IF quarters * size >= 0 THEN (quarters * size) \div 4
    ELSE 0 - ((0 - quarters * size) \div 4)

\* a bound of a Python slice on a list of n items
SliceBound(i, n) ==
    IF i < 0 THEN (IF i + n < 0 THEN 0 ELSE i + n)
    ELSE IF i > n THEN n ELSE i

\* seq[lo:hi]
Slice(seq, lo, hi) ==
    SubSeq(seq, SliceBound(lo, Len(seq)) + 1, SliceBound(hi, Len(seq)))

\* d[key] = value on a dict
SetItem(d, key, value) ==
    [k \in DOMAIN d \cup {key} |-> IF k = key THEN value ELSE d[k]]

\* Dataset.split: the split_indices it leaves, from those it finds; test and
\* validate are counted in quarters
split(st, indices_before, test, validate, seed) ==
    LET size      == Len(st.df.index)
        indices   == shuffle(seed, size)
        test_size == SizeOf(test, size)
        val_size  == SizeOf(validate, size)
        with_test == SetItem(indices_before, "test", Slice(indices, 0, test_size))
        with_val  == IF validate > 0
                     THEN SetItem(with_test, "validate",
                                  Slice(indices, test_size, test_size + val_size))
                     ELSE with_test
    IN  SetItem(with_val, "train", Slice(indices, test_size + val_size, size))

-----------------------------------------------------------------------------
(* Bounds and inputs *)

\* rows of the file that is loaded
NRows == 2

\* columns the table may grow to
MaxCols == 2

\* levels a dummy column's name may hold: dummies of dummies up to this depth
MaxDepth == 1

\* the columns of the file that is loaded, a column for add_columns, and a name
\* that is never a column
InitNames == {Name("a")}

AddNames == {Name("b")}

AbsentName == Name("z")

\* the cells of the files that are loaded: for the Datasets whose columns are
\* cast, and for the Datasets whose table is restructured
CastCells == {IntCell(1), FloatCell(3), NaN, StrCell(1), StrCell(2), BoolCell(1)}

StructCells == {FloatCell(3), NaN, StrCell(2), StrCell(3)}

\* a column as pandas holds it: one dtype for all its cells (int64, float64,
\* object holding strings and NaN, or bool)
OneDtype(c) ==
    \/ \A i \in DOMAIN c : c[i].k = "int"
    \/ \A i \in DOMAIN c : c[i].k \in {"float", "nan"}
    \/ /\ \A i \in DOMAIN c : c[i].k \in {"str", "nan"}
       /\ \E i \in DOMAIN c : c[i].k = "str"
    \/ \A i \in DOMAIN c : c[i].k = "bool"

ColumnsOfLen(cells, n) == {c \in [1..n -> cells] : OneDtype(c)}

\* the cells of the columns handed to add_columns
AddedCells == {IntCell(1), BoolCell(1)}

NoTarget == Name("None")

\* the record of the latest call: the method, the column names and the other
\* arguments it was given, the exception it raised and the value it returned
NoCall == [op |-> "none", cols |-> <<>>, args |-> <<>>, e |-> NoError, ret |-> None]

Call(op, cols, args, e) == [op |-> op, cols |-> cols, args |-> args, e |-> e, ret |-> None]

St == [df |-> df, labels |-> labels, target |-> target]

\* the Dataset's fields after a call that ended as r, and the record of the call
Becomes(r, call) ==
    /\ df' = r.st.df
    /\ labels' = r.st.labels
    /\ target' = r.st.target
    /\ last' = call
    /\ obj' = obj
    /\ UNCHANGED <<split_indices, is_split>>

-----------------------------------------------------------------------------
(* Dataset.__init__ with labels=None on a file of NRows rows: every column *)
(* is given its label by auto_assign, and the Dataset exists only when     *)
(* none of them raised.                                                    *)

Loaded(cols) ==
    [df |-> [index |-> [i \in 1..NRows |-> i - 1], cols |-> cols],
     labels |-> <<>>, target |-> NoTarget]

\* the Datasets that loading a file of the given cells can build
Constructed(cells) ==
    \E cols \in [InitNames -> ColumnsOfLen(cells, NRows)] :
        /\ \A c \in InitNames : auto_assign(Loaded(cols), c).e = NoError
        /\ df = Loaded(cols).df
        /\ labels = [c \in InitNames |-> auto_assign(Loaded(cols), c).obj]
        /\ target = NoTarget
        /\ obj = NoObj
        /\ last = NoCall
        /\ split_indices = <<>>
        /\ is_split = FALSE

Init == Constructed(StructCells)

InitCast == Constructed(CastCells)

ColArgs == Columns(df) \cup {AbsentName}

SetTarget ==
    \E c \in ColArgs :
        Becomes(set_target(St, c), Call("set_target", <<c>>, <<>>, set_target(St, c).e))

CastActive ==
    \E c \in ColArgs, a \in {PyBool(TRUE), PyBool(FALSE), PyFloat("nan")} :
        Becomes(cast_active(St, c, a), Call("cast_active", <<c>>, <<a>>, cast_active(St, c, a).e))

CastType ==
    \E c \in ColArgs, t \in {"int", "float", "str", "date", "time", "datetime", "bool"},
       f \in {None, PyStr("%Y-%m-%d")} :
        Becomes(cast_type(St, c, t, f),
                Call("cast_type", <<c>>, <<TypeObj(t)>>, cast_type(St, c, t, f).e))

CastCategory ==
    \E c \in ColArgs,
       g \in AcceptableValues("category") \cup {PyStr("datetime"), PyFloat("0.1")} :
        Becomes(cast_category(St, c, g),
                Call("cast_category", <<c>>, <<g>>, cast_category(St, c, g).e))

DropRows ==
    \E l \in {0, NRows} :
        Becomes(drop_rows(St, <<l>>), Call("drop_rows", <<>>, <<>>, drop_rows(St, <<l>>).e))

DropNullRows ==
    \E c \in ColArgs :
        Becomes(drop_null_rows(St, c),
                Call("drop_null_rows", <<c>>, <<>>, drop_null_rows(St, c).e))

DropColumns ==
    \E to_drop \in {<<c>> : c \in ColArgs} \cup {<<c, d>> : c, d \in ColArgs} :
        Becomes(drop_columns(St, to_drop),
                Call("drop_columns", to_drop, <<>>, drop_columns(St, to_drop).e))

\* the names a frame would add are new, and the table stays within MaxCols:
\* column names stay unique, as pd.read_csv makes them, and every frame added
\* is on the table's index
Fits(frame) ==
    /\ \A i \in DOMAIN frame : frame[i].name \notin Columns(df)
    /\ \A i, j \in DOMAIN frame : frame[i].name = frame[j].name => i = j
    /\ Cardinality(Columns(df)) + Len(frame) <= MaxCols

AddColumns ==
    \/ \E n \in AddNames, vals \in ColumnsOfLen(AddedCells, Len(df.index)) :
        LET to_add == [kind |-> "DataFrame", frame |-> <<[name |-> n, vals |-> vals]>>]
        IN  /\ Fits(to_add.frame)
            /\ Becomes(add_columns(St, to_add),
                       Call("add_columns", <<n>>, <<PyStr("DataFrame")>>, add_columns(St, to_add).e))
    \/ \E n \in Columns(df) \cup AddNames :
        LET to_add == [kind |-> "Series", frame |-> <<[name |-> n, vals |-> <<>>]>>]
        IN  Becomes(add_columns(St, to_add),
                    Call("add_columns", <<n>>, <<PyStr("Series")>>, add_columns(St, to_add).e))

ToDummies ==
    \E c \in ColArgs, drop_categorical \in BOOLEAN, drop_first \in BOOLEAN,
       prefix \in {None, PyStr("p")} :
        /\ Len(c.levels) < MaxDepth
        /\ c \in Columns(df) => Fits(DummiesFrame(St, c, drop_first, prefix, None))
        /\ Becomes(to_dummies(St, c, drop_categorical, drop_first, prefix, None),
                   Call("to_dummies", <<c>>, <<PyBool(drop_categorical)>>,
                        to_dummies(St, c, drop_categorical, drop_first, prefix, None).e))

HandleNulls ==
    \E c \in ColArgs, inplace \in BOOLEAN,
       s \in {PyStr("drop_rows"), PyStr("drop_column"), PyStr("fill_average"),
              PyStr("median")} :
        Becomes(handle_nulls(St, c, s, inplace),
                Call("handle_nulls", <<c>>, <<s>>, handle_nulls(St, c, s, inplace).e))

AutoType ==
    \E c \in Columns(df) :
        /\ last' = [Call("auto_type", <<c>>, <<>>, auto_type(df.cols[c]).e)
                        EXCEPT !.ret = auto_type(df.cols[c]).type]
        /\ UNCHANGED <<df, labels, target, obj, split_indices, is_split>>

\* the structural methods of the Dataset
Next ==
    \/ SetTarget
    \/ DropRows
    \/ DropNullRows
    \/ DropColumns
    \/ AddColumns
    \/ ToDummies
    \/ HandleNulls
    \/ AutoType

Spec == Init /\ [][Next]_vars

\* self.labels[c].key = value, written by a caller
SetLabelAttribute ==
    \E c \in DOMAIN labels, key \in {"category", "type", "is_active"} :
      \E value \in AcceptableValues(key) \cup {PyFloat("nan"), PyStr("potato")} :
        /\ labels' = [labels EXCEPT ![c] = SetAttr(@, key, value)]
        /\ last' = Call("__setattr__", <<c>>, <<PyStr(key)>>, SetAttrError(key, value))
        /\ UNCHANGED <<df, target, obj, split_indices, is_split>>

\* the label methods of the Dataset
NextCast ==
    \/ CastType
    \/ CastCategory
    \/ CastActive
    \/ SetLabelAttribute
    \/ AutoType

SpecCast == InitCast /\ [][NextCast]_vars

-----------------------------------------------------------------------------
(* ColumnLabel on its own: obj is the label a caller holds, NoObj before  *)
(* the first construction succeeds.                                       *)

CategoryInputs == AcceptableValues("category") \cup {PyStr("datetime"), PyFloat("0.1")}

TypeInputs == AcceptableValues("type") \cup {PyStr("potato"), PyInt("3")}

ActiveInputs == AcceptableValues("is_active") \cup {PyFloat("nan")}

InitLabel ==
    /\ df = [index |-> <<>>, cols |-> <<>>]
    /\ labels = <<>>
    /\ target = NoTarget
    /\ obj = NoObj
    /\ last = NoCall
    /\ split_indices = <<>>
    /\ is_split = FALSE

\* obj = ColumnLabel(category, type, is_active)
Construct ==
    \E c \in CategoryInputs, t \in TypeInputs, a \in ActiveInputs :
        LET r == ColumnLabel(c, t, a)
        IN  /\ obj' = IF r.e = NoError THEN r.obj ELSE obj
            /\ last' = Call("ColumnLabel", <<>>, <<c, t, a>>, r.e)
            /\ UNCHANGED <<df, labels, target, split_indices, is_split>>

\* obj.key = value
SetAttribute ==
    \E key \in {"category", "type", "is_active"},
       value \in CategoryInputs \cup TypeInputs \cup ActiveInputs :
        /\ obj # NoObj
        /\ obj' = SetAttr(obj, key, value)
        /\ last' = Call("__setattr__", <<>>, <<PyStr(key), value>>, SetAttrError(key, value))
        /\ UNCHANGED <<df, labels, target, split_indices, is_split>>

\* obj.category_type_match()
CategoryTypeMatch ==
    /\ obj # NoObj
    /\ last' = Call("category_type_match", <<>>, <<>>, category_type_match(obj))
    /\ UNCHANGED <<df, labels, target, obj, split_indices, is_split>>

NextLabel ==
    \/ Construct
    \/ SetAttribute
    \/ CategoryTypeMatch

SpecLabel == InitLabel /\ [][NextLabel]_vars

-----------------------------------------------------------------------------
(* The train / test / validate split, on a table whose rows may be dropped *)
(* between two splits.  A fraction is a number of quarters, which the      *)
(* floats of Python hold exactly.                                          *)

SplitFractions == {0, 1, 2, 4}

Seeds == {0, 1}

Split ==
    \E test \in SplitFractions, validate \in SplitFractions, seed \in Seeds :
        /\ split_indices' = split(St, split_indices, test, validate, seed)
        /\ is_split' = TRUE
        /\ last' = Call("split", <<>>, <<test, validate, seed>>, NoError)
        /\ UNCHANGED <<df, labels, target, obj>>

NextSplit ==
    \/ Split
    \/ DropRows
    \/ DropNullRows

SpecSplit == Init /\ [][NextSplit]_vars

-----------------------------------------------------------------------------
(* Claims *)

\* the categories the Compatibility Matrix lists for a type
Compatible(type) == Range(CAST_MAP[type].category)

\* C1: when cast_category fails because the target category is not compatible
\* with the column's type, the column's label (category, type, is_active) is what
\* it was before the call.
C1_LabelKeptOnMismatch ==
    [][(last'.op = "cast_category" /\ last'.e.err = "CategoryTypeMismatch")
          => labels' = labels]_vars

\* C2: in every reachable state, after any attribute writes and casts, whether
\* they returned or raised, every label's category is among the compatible
\* categories of the matrix entry for its type.
C2_CategoryMatchesType ==
    /\ \A c \in DOMAIN labels : labels[c].category.v \in Compatible(labels[c].type.v)
    /\ obj # NoObj => obj.category.v \in Compatible(obj.type.v)

\* C3: a cast_type that fails, for whatever reason, leaves the column's cells and
\* its label as they were; and casting a float column that holds a null to int
\* fails with the label's type still float.
C3_CastTypeAtomic ==
    [][last'.op = "cast_type" =>
          /\ last'.e # NoError => (df' = df /\ labels' = labels /\ target' = target)
          /\ \A c \in DOMAIN labels :
                (/\ last'.cols = <<c>>
                 /\ last'.args[1] = TypeObj("int")
                 /\ labels[c].type.v = "float"
                 /\ \E i \in DOMAIN df.cols[c] : IsNull(df.cols[c][i]))
                => (last'.e.err = "CastValue" /\ labels'[c].type.v = "float")]_vars

\* a cast of a float column holding a null to int has failed
C3_Witness ==
    /\ last.op = "cast_type"
    /\ last.args[1] = TypeObj("int")
    /\ last.e.err = "CastValue"
    /\ labels[last.cols[1]].type.v = "float"
    /\ \E i \in DOMAIN df.cols[last.cols[1]] : df.cols[last.cols[1]][i] = NaN

\* C4: after a cast_type that succeeds, the datetime path included, the label's
\* type is the target type, its category is the first compatible category of the
\* target type, is_active is unchanged, and the category matches the type.
C4_CastTypeLabel ==
    [][(last'.op = "cast_type" /\ last'.e = NoError) =>
          LET c == last'.cols[1]
              t == last'.args[1].v
          IN  /\ labels'[c].type = PyStr(t)
              /\ labels'[c].category = PyStr(CAST_MAP[t].category[1])
              /\ labels'[c].is_active = labels[c].is_active
              /\ labels'[c].category.v \in Compatible(labels'[c].type.v)]_vars

\* a cast to datetime has succeeded on a column whose cells are now Timestamps
C4_Witness ==
    /\ last.op = "cast_type"
    /\ last.e = NoError
    /\ last.args[1] = TypeObj("datetime")
    /\ \E i \in DOMAIN df.cols[last.cols[1]] : df.cols[last.cols[1]][i].k = "Timestamp"

\* C5: the keys of the labels map are the column names of the table, after
\* construction and after every structural call, whether it returned or raised.
C5_LabelsMatchColumns == DOMAIN labels = Columns(df)

\* C6: a column-scoped method given a name that is not a column (for drop_columns:
\* a list holding such a name at any position) fails with the column-not-found
\* error and leaves the table, the labels and the target as they were.
C6_AbsentColumnNoMutation ==
    [][(/\ last'.op \in {"set_target", "cast_active", "cast_type", "cast_category",
                         "drop_null_rows", "drop_columns", "to_dummies", "handle_nulls"}
        /\ \E i \in DOMAIN last'.cols : last'.cols[i] \notin Columns(df))
          => (/\ last'.e.err = "ColumnNotFound"
              /\ df' = df
              /\ labels' = labels
              /\ target' = target)]_vars

\* the type of the first value that is not null, or the type-not-found error
\* when every value is null
FirstNonNullType(vals) ==
    LET hits == {i \in DOMAIN vals : ~IsNull(vals[i])}
    IN  IF hits = {} THEN [type |-> None, e |-> Raise("DataTypeNotFound")]
        ELSE [type |-> TypeObj(PyType(vals[CHOOSE i \in hits : \A j \in hits : i <= j])),
              e |-> NoError]

\* C7: type inference returns the type of the first value that is not null, and
\* fails with the type-not-found error exactly when every value is null.
C7_FirstNonNullType ==
    last.op = "auto_type" =>
        [type |-> last.ret, e |-> last.e] = FirstNonNullType(df.cols[last.cols[1]])

\* C8: construction from an accepted category, an accepted type and a boolean
\* succeeds when the matrix lists the category for the type and fails with the
\* category/type mismatch error otherwise.
C8_ConstructionOutcome ==
    (/\ last.op = "ColumnLabel"
     /\ last.args[1] \in AcceptableValues("category")
     /\ last.args[2] \in AcceptableValues("type")
     /\ last.args[3] \in AcceptableValues("is_active"))
    => IF last.args[1].v \in Compatible(last.args[2].v)
       THEN /\ last.e = NoError
            /\ obj = [category |-> last.args[1], type |-> last.args[2],
                      is_active |-> last.args[3]]
       ELSE last.e.err = "CategoryTypeMismatch"

\* a construction from accepted values has failed on the category/type check
C8_Witness ==
    /\ last.op = "ColumnLabel"
    /\ last.args[1] \in AcceptableValues("category")
    /\ last.args[2] \in AcceptableValues("type")
    /\ last.args[3] \in AcceptableValues("is_active")
    /\ last.e.err = "CategoryTypeMismatch"

\* the error the claim gives a field: a type error for a value of the wrong
\* kind, a value error for a value outside the enum
FieldError(key, value) ==
    IF value.kind # AcceptableType(key)
    THEN [err |-> "InvalidAttribute", exc |-> "TypeError"]
    ELSE IF value \notin AcceptableValues(key)
    THEN [err |-> "InvalidValue", exc |-> "ValueError"]
    ELSE NoError

\* C9: construction checks category, type, is_active in this order and reports
\* the first field's error: a type error for a value of the wrong primitive kind,
\* a value error for a value outside the enum; the category/type check runs only
\* when the three fields have passed.
C9_FirstFailingField ==
    last.op = "ColumnLabel" =>
        LET e1 == FieldError("category", last.args[1])
            e2 == FieldError("type", last.args[2])
            e3 == FieldError("is_active", last.args[3])
        IN  IF e1 # NoError THEN last.e = e1
            ELSE IF e2 # NoError THEN last.e = e2
            ELSE IF e3 # NoError THEN last.e = e3
            ELSE last.e.err \in {"none", "CategoryTypeMismatch"}

Strategies == {PyStr("drop_rows"), PyStr("drop_column"), PyStr("fill_average")}

\* C10: handle_nulls fails with the unknown-strategy error exactly when the
\* strategy is not one of drop_rows, drop_column, fill_average, and then it
\* leaves the table and the labels as they were.
C10_UnknownStrategy ==
    [][last'.op = "handle_nulls" =>
          /\ last'.e.err = "UnknownNullStrategy" <=> last'.args[1] \notin Strategies
          /\ last'.args[1] \notin Strategies => (df' = df /\ labels' = labels)]_vars

\* the row positions held by the partitions of a split
Partitioned(indices) == UNION {Range(indices[k]) : k \in DOMAIN indices}

\* C11: once split, the partitions stored in split_indices are pairwise
\* disjoint and together hold exactly the row positions 0..size-1 of the table
\* at the latest split, and there is a 'validate' partition only if the latest
\* split asked for one; no other operation touches the partitions.
C11_SplitPartitions ==
    [][IF last'.op = "split"
       THEN /\ is_split'
            /\ \A j, k \in DOMAIN split_indices' :
                 j # k => Range(split_indices'[j]) \cap Range(split_indices'[k]) = {}
            /\ Partitioned(split_indices') = 0 .. (Len(df.index) - 1)
            /\ "validate" \in DOMAIN split_indices' => last'.args[2] > 0
       ELSE UNCHANGED <<split_indices, is_split>>]_vars

=============================================================================
